---- MODULE Spec2Model ----
(***************************************************************************)
(* Model of main.py: the Android Health Connect heart-rate explorer.       *)
(*                                                                         *)
(* One run of main(): connect_db, fetch_heart_rate_data,                   *)
(* calculate_averages, output_console / output_graph and the finally       *)
(* block that closes the connection.                                       *)
(*                                                                         *)
(* Representation.                                                         *)
(*  - A row of heart_rate_record_series_table is                           *)
(*    [epoch_millis |-> Int, beats_per_minute |-> Int].                    *)
(*  - A pandas Timestamp is [kind |-> "Timestamp", day, ms]: the number of *)
(*    whole days since 1970-01-01 (floor) and the millisecond inside that  *)
(*    day.  Labels of weekly and monthly bins lie beyond the range of a    *)
(*    32-bit millisecond count, so instants are kept in this split form.   *)
(*  - A formatted index entry (strftime) is [kind |-> "str", text |-> t]   *)
(*    where t is the tuple of the numbers the format prints.               *)
(*  - Python's None is the empty tuple; an optional value v is <<v>>.      *)
(*  - A float mean is the reduced fraction [num, den] of sum / count.      *)
(***************************************************************************)
EXTENDS Integers, Sequences, FiniteSets, TLC

VARIABLES
    table,      \* rows of heart_rate_record_series_table, in storage order
    max_bpm,    \* args.max_bpm: None or <<ceiling>>
    output,     \* args.output: "console" or "graph"
    pc,         \* position of main()
    conn,       \* main's local variable conn: None or <<"conn">>
    connOpen,   \* an sqlite3 connection is open
    df,         \* main's local variable df: None or the Sample Series
    daily,      \* daily aggregate DataFrame (sequence of points)
    weekly,     \* weekly aggregate DataFrame
    monthly,    \* monthly aggregate DataFrame
    pending,    \* exception in flight: "none", "SystemExit", "Exception"
    exitCode,   \* None while running, <<code>> once the process has ended
    trace       \* the stages that have run, in order

vars == <<table, max_bpm, output, pc, conn, connOpen, df, daily, weekly,
          monthly, pending, exitCode, trace>>

None == << >>

----------------------------------------------------------------------------
(* Bounds and input sets *)

MaxRows == 2

MsPerDay == 86400000

\* 1969-12-31 23:59:59.999 (Wed), 1970-01-01 00:00 (Thu), 1970-01-04 00:00
\* and 23:59:59.999 (Sun), 1970-01-05 00:00 (Mon), 1970-01-20 00:00 (Tue)
EpochMillis == { -1, 0, 3 * MsPerDay, 4 * MsPerDay - 1, 4 * MsPerDay,
                 19 * MsPerDay }

Bpms == {0, 60, 80, 155}

Ceilings == {80, 100}

Rows == [epoch_millis : EpochMillis, beats_per_minute : Bpms]

RECURSIVE SeqsUpTo(_, _)
SeqsUpTo(S, n) ==
    IF n = 0 THEN { << >> }
    ELSE LET shorter == SeqsUpTo(S, n - 1)
         IN  shorter \cup { Append(s, x) : s \in { t \in shorter : Len(t) = n - 1 }, x \in S }

----------------------------------------------------------------------------
(* Calendar arithmetic of the proleptic Gregorian calendar, as used by     *)
(* pandas Timestamps and strftime.                                         *)

IsLeap(y) == (y % 4 = 0 /\ y % 100 # 0) \/ y % 400 = 0

DaysInMonth(y, m) ==
    IF m = 2 THEN (IF IsLeap(y) THEN 29 ELSE 28)
    ELSE IF m \in {4, 6, 9, 11} THEN 30 ELSE 31

RECURSIVE CivilFrom(_, _, _)
\* n = offset in days from the first day of month m of year y
CivilFrom(y, m, n) ==
    IF n < 0 THEN
        LET py == IF m = 1 THEN y - 1 ELSE y
            pm == IF m = 1 THEN 12 ELSE m - 1
        IN  CivilFrom(py, pm, n + DaysInMonth(py, pm))
    ELSE IF n >= DaysInMonth(y, m) THEN
        CivilFrom(IF m = 12 THEN y + 1 ELSE y, IF m = 12 THEN 1 ELSE m + 1,
                  n - DaysInMonth(y, m))
    ELSE [year |-> y, month |-> m, day |-> n + 1]

\* day number (days since 1970-01-01) to year, month, day of month
Civil(d) == CivilFrom(1970, 1, d)

\* Timestamp.weekday(): Monday = 0 ... Sunday = 6; 1970-01-01 is a Thursday
Weekday(d) == (d + 3) % 7

RECURSIVE DaysBeforeMonth(_, _)
DaysBeforeMonth(y, m) ==
    IF m = 1 THEN 0 ELSE DaysBeforeMonth(y, m - 1) + DaysInMonth(y, m - 1)

\* tm_yday: 0-based day of the year
YDay(d) == DaysBeforeMonth(Civil(d).year, Civil(d).month) + Civil(d).day - 1

\* strftime %U: week of the year, weeks starting on Sunday, days before the
\* first Sunday are in week 0
WeekU(d) == (YDay(d) + 7 - ((Weekday(d) + 1) % 7)) \div 7

----------------------------------------------------------------------------
(* Timestamps *)

Timestamp(d, m) == [kind |-> "Timestamp", day |-> d, ms |-> m]

Str(t) == [kind |-> "str", text |-> t]

\* pd.to_datetime(epoch_millis, unit='ms')
ToDatetime(e) == Timestamp(e \div MsPerDay, e % MsPerDay)

TsLeq(a, b) == a.day < b.day \/ (a.day = b.day /\ a.ms <= b.ms)

TsLt(a, b) == a.day < b.day \/ (a.day = b.day /\ a.ms < b.ms)

----------------------------------------------------------------------------
(* fetch_heart_rate_data: the query and the DataFrame it returns *)

\* variant: the ceiling compared with < instead of <=
SqlWhereStrict(r, mb) ==
    /\ r.beats_per_minute > 0
    /\ (mb = None \/ r.beats_per_minute < mb[1])

\* WHERE beats_per_minute > 0 [AND beats_per_minute <= ?]
SqlWhere(r, mb) ==
    /\ r.beats_per_minute > 0
    /\ (mb = None \/ r.beats_per_minute <= mb[1])

RECURSIVE SqlSelect(_, _)
\* the rows the SELECT returns, in storage order
SqlSelect(tbl, mb) ==
    IF tbl = << >> THEN << >>
    ELSE IF SqlWhere(Head(tbl), mb)
         THEN <<Head(tbl)>> \o SqlSelect(Tail(tbl), mb)
         ELSE SqlSelect(Tail(tbl), mb)

\* pd.read_sql_query(..., parse_dates={'epoch_millis': {'unit': 'ms'}})
ReadSqlQuery(tbl, mb) ==
    LET rows == SqlSelect(tbl, mb)
    IN  [i \in 1..Len(rows) |->
            [epoch_millis |-> ToDatetime(rows[i].epoch_millis),
             beats_per_minute |-> rows[i].beats_per_minute]]

RECURSIVE InsertSorted(_, _)
InsertSorted(s, r) ==
    IF s = << >> THEN <<r>>
    ELSE IF TsLt(r.epoch_millis, Head(s).epoch_millis)
         THEN <<r>> \o s
         ELSE <<Head(s)>> \o InsertSorted(Tail(s), r)

RECURSIVE SortIndexFrom(_, _)
SortIndexFrom(sorted, rest) ==
    IF rest = << >> THEN sorted
    ELSE SortIndexFrom(InsertSorted(sorted, Head(rest)), Tail(rest))

\* df.set_index('epoch_millis'); df.sort_index(): ascending by timestamp
\* (rows with equal timestamps keep their order, as numpy's sort does for
\* arrays this short)
SortIndex(rows) == SortIndexFrom(<< >>, rows)

\* the value fetch_heart_rate_data returns when the query succeeds
FetchResult(tbl, mb) ==
    LET rows == ReadSqlQuery(tbl, mb)
    IN  IF rows = << >> THEN None ELSE SortIndex(rows)

----------------------------------------------------------------------------
(* calculate_averages: df.resample(freq).mean().dropna() *)

\* date offsets: 'D' = Day, 'W' = Week(weekday=6), 'ME' = MonthEnd
IsMonthEnd(d) == Civil(d).day = DaysInMonth(Civil(d).year, Civil(d).month)

\* d + offset: the first on-offset day strictly after d
OffsetNext(freq, d) ==
    IF freq = "D" THEN d + 1
    ELSE IF freq = "W" THEN (IF Weekday(d) = 6 THEN d + 7 ELSE d + (6 - Weekday(d)))
    ELSE LET c == Civil(d)
             ny == IF c.month = 12 THEN c.year + 1 ELSE c.year
             nm == IF c.month = 12 THEN 1 ELSE c.month + 1
         IN  IF IsMonthEnd(d) THEN d + DaysInMonth(ny, nm)
             ELSE d + (DaysInMonth(c.year, c.month) - c.day)

\* d - offset: the last on-offset day strictly before d
OffsetPrev(freq, d) ==
    IF freq = "D" THEN d - 1
    ELSE IF freq = "W" THEN (IF Weekday(d) = 6 THEN d - 7 ELSE d - (Weekday(d) + 1))
    ELSE d - Civil(d).day

\* variant: every frequency labelled by the left edge of its bin
LabelLeft(freq) == "left"

\* TimeGrouper defaults: closed and label are 'right' for W and ME, 'left'
\* for D
Closed(freq) == IF freq = "D" THEN "left" ELSE "right"

Label(freq) == IF freq = "D" THEN "left" ELSE "right"

\* _get_timestamp_range_edges: the first and last day of the bin range
RangeFirst(freq, axMin) ==
    IF freq = "D" THEN axMin.day ELSE OffsetPrev(freq, axMin.day)

\* variant: the range ends at the day of the last sample, not one offset on
RangeLastNoOffset(freq, axMax) == axMax.day

RangeLast(freq, axMax) == OffsetNext(freq, axMax.day)

RECURSIVE DateRange(_, _, _)
\* date_range(first, last, freq): the on-offset days from first to last
DateRange(freq, first, last) ==
    IF first > last THEN << >>
    ELSE <<first>> \o DateRange(freq, OffsetNext(freq, first), last)

\* variant: the edges stay at midnight, without _adjust_bin_edges
BinEdgeUnadjusted(freq, d) == Timestamp(d, 0)

\* _adjust_bin_edges, one edge: for W and ME the edge moves to the last
\* instant of its day (binner + 1 day - 1 ns; at millisecond precision the
\* last millisecond of the day)
BinEdge(freq, d) ==
    IF freq = "D" THEN Timestamp(d, 0) ELSE Timestamp(d, MsPerDay - 1)

\* _adjust_bin_edges, the trailing bin: dropped when the second to last
\* edge is already past the last sample
Binner(freq, axMin, axMax) ==
    LET b == DateRange(freq, RangeFirst(freq, axMin), RangeLast(freq, axMax))
        n == Len(b)
    IN  IF freq # "D" /\ n >= 2 /\ TsLt(axMax, BinEdge(freq, b[n - 1]))
        THEN SubSeq(b, 1, n - 1) ELSE b

\* generate_bins_dt64: the timestamp t lies in the bin between edges lo, hi
InBin(freq, lo, hi, t) ==
    IF Closed(freq) = "left" THEN TsLeq(lo, t) /\ TsLt(t, hi)
    ELSE TsLt(lo, t) /\ TsLeq(t, hi)

RECURSIVE Gcd(_, _)
Gcd(a, b) == IF b = 0 THEN a ELSE Gcd(b, a % b)

RECURSIVE SumBpm(_)
SumBpm(rows) ==
    IF rows = << >> THEN 0 ELSE Head(rows).beats_per_minute + SumBpm(Tail(rows))

NaN == [num |-> 0, den |-> 0]

\* variant: the mean truncated to an integer (sum // count)
MeanFloor(rows) ==
    IF rows = << >> THEN NaN
    ELSE [num |-> SumBpm(rows) \div Len(rows), den |-> 1]

\* .mean() of one bin: sum / count as a reduced fraction, NaN for no rows
Mean(rows) ==
    IF rows = << >> THEN NaN
    ELSE LET s == SumBpm(rows)
             n == Len(rows)
             g == Gcd(n, s)
         IN  [num |-> s \div g, den |-> n \div g]

RECURSIVE RowsInBin(_, _, _, _)
RowsInBin(freq, lo, hi, rows) ==
    IF rows = << >> THEN << >>
    ELSE IF InBin(freq, lo, hi, Head(rows).epoch_millis)
         THEN <<Head(rows)>> \o RowsInBin(freq, lo, hi, Tail(rows))
         ELSE RowsInBin(freq, lo, hi, Tail(rows))

\* variant: one point per row, keyed by the row's day, rows never merged
ResampleEachRow(d, freq) ==
    [i \in 1..Len(d) |->
        [period |-> Timestamp(d[i].epoch_millis.day, 0), mean |-> Mean(<<d[i]>>)]]

\* df.resample(freq).mean(): one point per bin of the range, NaN included
ResampleMean(d, freq) ==
    LET b == Binner(freq, d[1].epoch_millis, d[Len(d)].epoch_millis)
    IN  [i \in 1..(Len(b) - 1) |->
            [period |-> Timestamp(IF Label(freq) = "left" THEN b[i] ELSE b[i + 1], 0),
             mean   |-> Mean(RowsInBin(freq, BinEdge(freq, b[i]),
                                       BinEdge(freq, b[i + 1]), d))]]

RECURSIVE DropNa(_)
DropNa(points) ==
    IF points = << >> THEN << >>
    ELSE IF Head(points).mean = NaN THEN DropNa(Tail(points))
         ELSE <<Head(points)>> \o DropNa(Tail(points))

Resample(d, freq) == DropNa(ResampleMean(d, freq))

\* the tuple calculate_averages returns
calculate_averages(d) == <<Resample(d, "D"), Resample(d, "W"), Resample(d, "ME")>>

----------------------------------------------------------------------------
(* output_console: index.strftime *)

\* the numbers one formatted label prints
FormatFields(fmt, d) ==
    IF fmt = "%Y-%m" THEN <<Civil(d).year, Civil(d).month>>
    ELSE IF fmt = "%Y - Week %U" THEN <<Civil(d).year, WeekU(d)>>
    ELSE <<Civil(d).year, Civil(d).month, Civil(d).day>>

\* frame.index = frame.index.strftime(fmt)
Strftime(points, fmt) ==
    [i \in 1..Len(points) |->
        [period |-> Str(FormatFields(fmt, points[i].period.day)),
         mean |-> points[i].mean]]

----------------------------------------------------------------------------
(* main() *)

Init ==
    /\ table \in SeqsUpTo(Rows, MaxRows)
    /\ max_bpm \in {None} \cup { <<c>> : c \in Ceilings }
    /\ output \in {"console", "graph"}
    /\ pc = "connect_db"
    /\ conn = None
    /\ connOpen = FALSE
    /\ df = None
    /\ daily = << >>
    /\ weekly = << >>
    /\ monthly = << >>
    /\ pending = "none"
    /\ exitCode = None
    /\ trace = << >>

\* variant: the missing file is reported but connect_db goes on to connect
ConnectDbNoExit ==
    /\ pc = "connect_db"
    /\ \E exists \in BOOLEAN :
          trace' = Append(trace, IF exists THEN "connect_db:ok" ELSE "connect_db:missing")
    /\ conn' = <<"conn">>
    /\ connOpen' = TRUE
    /\ pc' = "fetch"
    /\ UNCHANGED <<table, max_bpm, output, df, daily, weekly, monthly, pending,
                   exitCode>>

\* conn = connect_db(args.db_file): sys.exit(1) when the file is missing or
\* sqlite3.connect raises, else the open connection
ConnectDb ==
    /\ pc = "connect_db"
    /\ \E exists \in BOOLEAN, connects \in BOOLEAN :
          IF ~exists THEN
              /\ trace' = Append(trace, "connect_db:missing")
              /\ pending' = "SystemExit"
              /\ pc' = "finally"
              /\ UNCHANGED <<conn, connOpen>>
          ELSE IF ~connects THEN
              /\ trace' = Append(trace, "connect_db:error")
              /\ pending' = "SystemExit"
              /\ pc' = "finally"
              /\ UNCHANGED <<conn, connOpen>>
          ELSE
              /\ trace' = Append(trace, "connect_db:ok")
              /\ conn' = <<"conn">>
              /\ connOpen' = TRUE
              /\ pc' = "fetch"
              /\ UNCHANGED pending
    /\ UNCHANGED <<table, max_bpm, output, df, daily, weekly, monthly, exitCode>>

\* df = fetch_heart_rate_data(conn, args.max_bpm): None when the query
\* raises or returns no rows, else the sorted DataFrame
FetchHeartRateData ==
    /\ pc = "fetch"
    /\ \E queryOk \in BOOLEAN :
          IF ~queryOk THEN
              /\ trace' = Append(trace, "query:error")
              /\ df' = None
          ELSE
              /\ df' = FetchResult(table, max_bpm)
              /\ trace' = Append(trace, IF df' = None THEN "query:empty" ELSE "query:rows")
    /\ pc' = "check"
    /\ UNCHANGED <<table, max_bpm, output, conn, connOpen, daily, weekly,
                   monthly, pending, exitCode>>

\* variant: main returns instead of sys.exit(1) when df is None
CheckDfReturn ==
    /\ pc = "check"
    /\ pc' = IF df = None THEN "finally" ELSE "calculate"
    /\ UNCHANGED <<table, max_bpm, output, conn, connOpen, df, daily, weekly,
                   monthly, pending, exitCode, trace>>

\* if df is None: sys.exit(1)
CheckDf ==
    /\ pc = "check"
    /\ IF df = None
       THEN pending' = "SystemExit" /\ pc' = "finally"
       ELSE pending' = pending /\ pc' = "calculate"
    /\ UNCHANGED <<table, max_bpm, output, conn, connOpen, df, daily, weekly,
                   monthly, exitCode, trace>>

\* daily, weekly, monthly = calculate_averages(df); pandas may raise
CalculateAverages ==
    /\ pc = "calculate"
    /\ trace' = Append(trace, "calculate_averages")
    /\ \E raises \in BOOLEAN :
          IF raises THEN
              /\ pending' = "Exception"
              /\ pc' = "finally"
              /\ UNCHANGED <<daily, weekly, monthly>>
          ELSE
              /\ daily' = calculate_averages(df)[1]
              /\ weekly' = calculate_averages(df)[2]
              /\ monthly' = calculate_averages(df)[3]
              /\ pc' = "output"
              /\ UNCHANGED pending
    /\ UNCHANGED <<table, max_bpm, output, conn, connOpen, df, exitCode>>

\* output_console(daily, weekly, monthly): each index is replaced by its
\* formatted strings before the frame is printed; a print may raise, after
\* `done' of the three index assignments
OutputConsole ==
    /\ pc = "output"
    /\ output = "console"
    /\ trace' = Append(trace, "output_console")
    /\ \E done \in 0..3, raises \in BOOLEAN :
          /\ (done < 3 => raises)
          /\ monthly' = IF done >= 1 THEN Strftime(monthly, "%Y-%m") ELSE monthly
          /\ weekly' = IF done >= 2 THEN Strftime(weekly, "%Y - Week %U") ELSE weekly
          /\ daily' = IF done >= 3 THEN Strftime(daily, "%Y-%m-%d") ELSE daily
          /\ pending' = IF raises THEN "Exception" ELSE pending
    /\ pc' = "finally"
    /\ UNCHANGED <<table, max_bpm, output, conn, connOpen, df, exitCode>>

\* output_graph(daily, weekly, monthly): reset_index().rename() copies the
\* frames into the ColumnDataSources; bokeh may raise
OutputGraph ==
    /\ pc = "output"
    /\ output = "graph"
    /\ trace' = Append(trace, "output_graph")
    /\ \E raises \in BOOLEAN :
          pending' = IF raises THEN "Exception" ELSE pending
    /\ pc' = "finally"
    /\ UNCHANGED <<table, max_bpm, output, conn, connOpen, df, daily, weekly,
                   monthly, exitCode>>

\* variant: conn.close() at the end of the try body instead of in finally
FinallyOnSuccess ==
    /\ pc = "finally"
    /\ connOpen' = IF conn # None /\ pending = "none" THEN FALSE ELSE connOpen
    /\ exitCode' = IF pending = "none" THEN <<0>> ELSE <<1>>
    /\ pc' = "exit"
    /\ UNCHANGED <<table, max_bpm, output, conn, df, daily, weekly, monthly,
                   pending, trace>>

\* finally: if conn: conn.close(); then the process ends, with status 1 for
\* sys.exit(1) and for an uncaught exception, 0 otherwise
Finally ==
    /\ pc = "finally"
    /\ connOpen' = IF conn # None THEN FALSE ELSE connOpen
    /\ exitCode' = IF pending = "none" THEN <<0>> ELSE <<1>>
    /\ pc' = "exit"
    /\ UNCHANGED <<table, max_bpm, output, conn, df, daily, weekly, monthly,
                   pending, trace>>

Next ==
    \/ ConnectDb
    \/ FetchHeartRateData
    \/ CheckDf
    \/ CalculateAverages
    \/ OutputConsole
    \/ OutputGraph
    \/ Finally

Spec == Init /\ [][Next]_vars

----------------------------------------------------------------------------
(* Vocabulary of the properties: calendar periods stated directly, without *)
(* the bin edges of resample                                               *)

Grans == {"day", "week", "month"}

\* the aggregate sequence of a granularity
Points(g) == IF g = "day" THEN daily ELSE IF g = "week" THEN weekly ELSE monthly

\* index of the Monday-to-Sunday week of a day (1969-12-29 is a Monday)
MonWeek(d) == (d + 3) \div 7

\* index of the Sunday-to-Saturday week of a day (1969-12-28 is a Sunday)
SunWeek(d) == (d + 4) \div 7

SameMonth(d1, d2) ==
    Civil(d1).year = Civil(d2).year /\ Civil(d1).month = Civil(d2).month

\* the timestamp t lies in the period of the point keyed k
InPeriod(g, k, t) ==
    IF g = "day" THEN t.day = k.day
    ELSE IF g = "week" THEN MonWeek(t.day) = MonWeek(k.day)
    ELSE SameMonth(t.day, k.day)

\* the samples of df inside the period of the point keyed k
Contributors(g, k) == { i \in DOMAIN df : InPeriod(g, k, df[i].epoch_millis) }

RECURSIVE SumOver(_)
SumOver(S) ==
    IF S = {} THEN 0
    ELSE LET i == CHOOSE x \in S : TRUE
         IN  df[i].beats_per_minute + SumOver(S \ {i})

\* m is the fraction sum(S) / |S|
IsMeanOf(m, S) ==
    /\ S # {}
    /\ m.den > 0
    /\ m.num * Cardinality(S) = SumOver(S) * m.den

Has(ev) == \E i \in DOMAIN trace : trace[i] = ev

Before(ev, i) == \E j \in 1..(i - 1) : trace[j] = ev

QueryEvents == {"query:rows", "query:empty", "query:error"}

OutputEvents == {"output_console", "output_graph"}

Aggregated == pc = "output"

----------------------------------------------------------------------------
(* C1: for every non-empty Sample Series and each granularity,             *)
(* calculate_averages partitions the samples: every sample lies in the     *)
(* period of exactly one emitted point, every emitted point has at least   *)
(* one contributing sample, and its mean is sum / count of exactly the     *)
(* samples inside its period.                                              *)
C1_PartitionAndMean ==
    Aggregated =>
        \A g \in Grans :
            /\ \A i \in DOMAIN df :
                  Cardinality({ j \in DOMAIN Points(g) :
                      InPeriod(g, Points(g)[j].period, df[i].epoch_millis) }) = 1
            /\ \A j \in DOMAIN Points(g) :
                  IsMeanOf(Points(g)[j].mean, Contributors(g, Points(g)[j].period))

\* two samples of one day with a fractional mean
C1_Witness ==
    /\ Aggregated
    /\ Len(df) = 2
    /\ df[1].epoch_millis = Timestamp(3, 0)
    /\ df[2].epoch_millis = Timestamp(3, MsPerDay - 1)
    /\ daily[1].mean = [num |-> 215, den |-> 2]

(* C2: the series fetch_heart_rate_data returns holds exactly the table    *)
(* rows with 0 < value <= C (value > 0 alone when max_bpm is omitted,      *)
(* which equals the result for a ceiling above every stored value), and    *)
(* no aggregate mean exceeds C.                                            *)
Passes(r) ==
    r.beats_per_minute > 0 /\ (max_bpm # None => r.beats_per_minute <= max_bpm[1])

TableCount(e, v) ==
    Cardinality({ i \in DOMAIN table :
        table[i].epoch_millis = e /\ table[i].beats_per_minute = v })

SeriesCount(e, v) ==
    IF df = None THEN 0
    ELSE Cardinality({ i \in DOMAIN df :
        df[i].epoch_millis = ToDatetime(e) /\ df[i].beats_per_minute = v })

\* a ceiling above every stored value
AboveAll == (CHOOSE m \in Bpms : \A v \in Bpms : v <= m) + 1

C2_CeilingFilter ==
    (Has("query:rows") \/ Has("query:empty")) =>
        /\ \A i \in DOMAIN df : Passes([beats_per_minute |-> df[i].beats_per_minute])
        /\ \A i \in DOMAIN table :
              Passes(table[i]) =>
                  SeriesCount(table[i].epoch_millis, table[i].beats_per_minute)
                      = TableCount(table[i].epoch_millis, table[i].beats_per_minute)
        /\ Len(df) = Cardinality({ i \in DOMAIN table : Passes(table[i]) })
        /\ (max_bpm = None => df = FetchResult(table, <<AboveAll>>))
        /\ (Aggregated /\ max_bpm # None =>
              \A g \in Grans : \A j \in DOMAIN Points(g) :
                  Points(g)[j].mean.num <= max_bpm[1] * Points(g)[j].mean.den)

\* a row at the ceiling is kept and a row above it is dropped
C2_Witness ==
    /\ Aggregated
    /\ max_bpm = <<80>>
    /\ Len(table) = 2
    /\ table[1].beats_per_minute = 155
    /\ table[2].beats_per_minute = 80
    /\ Len(df) = 1

(* C3: when the process has ended, on every exit path, the connection      *)
(* that connect_db opened is closed.                                       *)
C3_ConnectionClosed == pc = "exit" => ~connOpen

\* a connection was opened and an exception ended the run
C3_Witness == pc = "exit" /\ conn # None /\ pending = "Exception" /\ ~connOpen

(* C4 as stated: exit code 1 for a missing file, a failed connection, a    *)
(* failed query or an empty result set, exit code 0 in every other run.    *)
FourFailures ==
    Has("connect_db:missing") \/ Has("connect_db:error")
        \/ Has("query:error") \/ Has("query:empty")

C4_OnlyFourFailures ==
    pc = "exit" => exitCode = (IF FourFailures THEN <<1>> ELSE <<0>>)

(* C4 amended: exit code 1 for a missing file, a failed connection, a      *)
(* failed query, an empty result set, and also when calculate_averages or  *)
(* the presentation function raises; exit code 0 exactly when a non-empty  *)
(* result set was fetched and its presentation returned.                   *)
Raised == pending = "Exception"

C4_ExitCode ==
    pc = "exit" =>
        /\ exitCode = (IF FourFailures \/ Raised THEN <<1>> ELSE <<0>>)
        /\ (exitCode = <<0>> <=>
               Has("query:rows") /\ (\E ev \in OutputEvents : Has(ev)) /\ ~Raised)

\* an empty result set ended the run with status 1
C4_Witness == pc = "exit" /\ Has("query:empty") /\ exitCode = <<1>>

(* C5: the stages are gated in order: a query runs only after connect_db   *)
(* succeeded (none with a missing file, and no connection is opened),      *)
(* calculate_averages only after a non-empty fetch, one presentation       *)
(* function, the one --output names, only after calculate_averages; after  *)
(* an empty or failed fetch neither aggregation nor presentation occurs.   *)
C5_StagesGated ==
    /\ \A i \in DOMAIN trace :
          /\ trace[i] \in QueryEvents => Before("connect_db:ok", i)
          /\ trace[i] = "calculate_averages" => Before("query:rows", i)
          /\ trace[i] \in OutputEvents =>
                /\ Before("calculate_averages", i)
                /\ trace[i] = (IF output = "console" THEN "output_console"
                               ELSE "output_graph")
    /\ Cardinality({ i \in DOMAIN trace : trace[i] \in OutputEvents }) <= 1
    /\ (Has("connect_db:missing") =>
            conn = None /\ ~connOpen /\ \A ev \in QueryEvents : ~Has(ev))
    /\ (Has("query:empty") \/ Has("query:error") =>
            ~Has("calculate_averages") /\ \A ev \in OutputEvents : ~Has(ev))

\* a full run through all four stages
C5_Witness ==
    trace = <<"connect_db:ok", "query:rows", "calculate_averages", "output_graph">>

(* C6: each of the three sequences calculate_averages returns is strictly  *)
(* increasing by period: no period occurs twice and each point's period is *)
(* later than its predecessor's.                                           *)
C6_StrictlyIncreasing ==
    Aggregated =>
        \A g \in Grans : \A j \in DOMAIN Points(g) : \A k \in DOMAIN Points(g) :
            j < k => TsLt(Points(g)[j].period, Points(g)[k].period)

\* samples stored out of order, in two days, two weeks and two months
C6_Witness ==
    /\ Aggregated
    /\ Len(table) = 2
    /\ table[1].epoch_millis > table[2].epoch_millis
    /\ Len(daily) = 2 /\ Len(weekly) = 2 /\ Len(monthly) = 2

(* C7 as stated: weekly bins are Sunday-to-Saturday weeks: there is one     *)
(* weekly point per Sunday-to-Saturday week that holds a sample, and its   *)
(* mean is the mean of the samples of that week.                           *)
SunWeekSamples(w) == { i \in DOMAIN df : SunWeek(df[i].epoch_millis.day) = w }

C7_SundayStartingWeeks ==
    Aggregated =>
        LET weeks == { SunWeek(df[i].epoch_millis.day) : i \in DOMAIN df }
        IN  /\ Len(weekly) = Cardinality(weeks)
            /\ \A w \in weeks :
                  \E j \in DOMAIN weekly : IsMeanOf(weekly[j].mean, SunWeekSamples(w))

(* C7 amended: weekly bins are Monday-to-Sunday weeks (weeks ending on     *)
(* Sunday): two samples fall into the same weekly point exactly when they  *)
(* lie in the same Monday-to-Sunday week, so a series that crosses one     *)
(* Sunday-to-Monday boundary yields two weekly points, each computed only  *)
(* from the samples on its side of the boundary.                           *)
MonWeekSamples(w) == { i \in DOMAIN df : MonWeek(df[i].epoch_millis.day) = w }

C7_SundayEndingWeeks ==
    Aggregated =>
        LET weeks == { MonWeek(df[i].epoch_millis.day) : i \in DOMAIN df }
        IN  /\ Len(weekly) = Cardinality(weeks)
            /\ \A w \in weeks :
                  \E j \in DOMAIN weekly :
                      /\ MonWeek(weekly[j].period.day) = w
                      /\ IsMeanOf(weekly[j].mean, MonWeekSamples(w))

\* the last millisecond of a Sunday and the first of the Monday after it
C7_Witness ==
    /\ Aggregated
    /\ Len(df) = 2
    /\ df[1].epoch_millis = Timestamp(3, MsPerDay - 1)
    /\ df[2].epoch_millis = Timestamp(4, 0)
    /\ Len(weekly) = 2

(* C8 as stated: every point, at every granularity, is keyed by the first  *)
(* instant of its period, so its key is never later than the timestamp of  *)
(* a sample that contributes to it.                                        *)
C8_KeyedByPeriodStart ==
    Aggregated =>
        \A g \in Grans : \A j \in DOMAIN Points(g) :
            \A i \in Contributors(g, Points(g)[j].period) :
                TsLeq(Points(g)[j].period, df[i].epoch_millis)

(* C8 amended: a daily point is keyed by the first instant of its day, so  *)
(* its key is never later than a contributing sample; a weekly point is    *)
(* keyed by midnight of the Sunday that ends its week and a monthly point  *)
(* by midnight of the last day of its month, so the key of a weekly or     *)
(* monthly point is never earlier than the day of a contributing sample.   *)
SundayOnOrAfter(d) == d + (6 - Weekday(d))

LastDayOfMonth(d) == d + (DaysInMonth(Civil(d).year, Civil(d).month) - Civil(d).day)

Keys(g) == { Points(g)[j].period : j \in DOMAIN Points(g) }

C8_KeyedByDayStartOrPeriodEnd ==
    Aggregated =>
        /\ Keys("day") = { Timestamp(df[i].epoch_millis.day, 0) : i \in DOMAIN df }
        /\ Keys("week") =
              { Timestamp(SundayOnOrAfter(df[i].epoch_millis.day), 0) : i \in DOMAIN df }
        /\ Keys("month") =
              { Timestamp(LastDayOfMonth(df[i].epoch_millis.day), 0) : i \in DOMAIN df }
        /\ \A j \in DOMAIN daily : \A i \in Contributors("day", daily[j].period) :
              TsLeq(daily[j].period, df[i].epoch_millis)
        /\ \A g \in {"week", "month"} : \A j \in DOMAIN Points(g) :
              \A i \in Contributors(g, Points(g)[j].period) :
                  df[i].epoch_millis.day <= Points(g)[j].period.day

\* a Thursday sample whose weekly and monthly keys lie after it
C8_Witness ==
    /\ Aggregated
    /\ Len(df) = 1
    /\ df[1].epoch_millis = Timestamp(0, 0)
    /\ weekly[1].period = Timestamp(3, 0)
    /\ monthly[1].period = Timestamp(30, 0)

(* C9: entities are never mutated after creation: once a presentation      *)
(* function has run, the Sample Series is still the fetched one and the    *)
(* three aggregate sequences are still the ones calculate_averages         *)
(* returned for it (same period keys, same means).                         *)
C9_NeverMutated ==
    (\E ev \in OutputEvents : Has(ev)) =>
        /\ df = FetchResult(table, max_bpm)
        /\ <<daily, weekly, monthly>> = calculate_averages(df)

(* C10: for every non-empty Sample Series calculate_averages returns at    *)
(* least one point at each granularity, and exactly one daily, one weekly  *)
(* and one monthly point when all samples lie within one calendar day.     *)
C10_NeverEmpty ==
    Aggregated =>
        /\ \A g \in Grans : Len(Points(g)) >= 1
        /\ ((\A i \in DOMAIN df : df[i].epoch_millis.day = df[1].epoch_millis.day)
               => \A g \in Grans : Len(Points(g)) = 1)

\* two samples at different times of one Sunday
C10_Witness ==
    /\ Aggregated
    /\ Len(df) = 2
    /\ df[1].epoch_millis = Timestamp(3, 0)
    /\ df[2].epoch_millis = Timestamp(3, MsPerDay - 1)
    /\ Len(daily) = 1 /\ Len(weekly) = 1 /\ Len(monthly) = 1

====
